---- MODULE Spec2Model ----
\* Model of the Streamlit dashboard script app.py: one script run (render
\* pass) per user interaction, five st.cache_data(ttl=60) query wrappers over
\* run_query, the sidebar widgets and the "Refresh now" button.
EXTENDS Integers, Sequences, FiniteSets, TLC

VARIABLES
  env,          \* os.getenv values of the three required settings
  clock,        \* wall clock, in seconds
  db,           \* index of the warehouse content currently served
  cache,        \* st.cache_data stores: function name -> (args -> entry)
  widgets,      \* session widget state (selectbox, slider)
  pc,           \* position of the script run ("idle": no run in progress)
  button,       \* "Refresh now" was clicked for the run in progress
  missing, symbols, sel_symbol, hours_back,
  latest_df, summary_df, signal_df, series_df,
  ui,           \* elements emitted by the current / last script run
  sent,         \* statements handed to cursor.execute in this run
  calls,        \* calls of the cached wrappers in this run
  fetched,      \* history: last successful run_query per function and args
  refresh,      \* history: progress of the last "Refresh now" click
  runs          \* number of script runs the user has triggered

vars == <<env, clock, db, cache, widgets, pc, button, missing, symbols,
          sel_symbol, hours_back, latest_df, summary_df, signal_df, series_df,
          ui, sent, calls, fetched, refresh, runs>>

----------------------------------------------------------------------------
\* Bounds and program constants

TTL == 60
SliderMin == 6
SliderMax == 96
SliderDefault == 48
SecondsPerHour == 3600

TickSeconds == 30
MaxClock == 60
MaxRuns == 3

\* Symbols are strings, modelled as sequences of character codes.
SymA  == <<1>>
SymAB == <<1, 2>>
SymB  == <<2>>

HoursChoices == {SliderMin, SliderDefault}

----------------------------------------------------------------------------
\* Python / pandas helpers

\* str < str in Python: lexicographic by code point
LexLess(a, b) ==
  \E i \in 1..(Len(a) + 1) :
    /\ \A j \in 1..(i - 1) : j <= Len(b) /\ a[j] = b[j]
    /\ \/ i > Len(a) /\ i <= Len(b)
       \/ i <= Len(a) /\ i <= Len(b) /\ a[i] < b[i]

RECURSIVE InsertSorted(_, _)
InsertSorted(x, s) ==
  IF s = <<>> THEN <<x>>
  ELSE IF LexLess(x, Head(s)) THEN <<x>> \o s
  ELSE <<Head(s)>> \o InsertSorted(x, Tail(s))

\* the list as the server returned it
sortedAsReturned(s) == s

RECURSIVE sorted(_)
sorted(s) ==
  IF s = <<>> THEN <<>>
  ELSE InsertSorted(s[Len(s)], sorted(SubSeq(s, 1, Len(s) - 1)))

RECURSIVE Digits(_)
Digits(n) ==
  IF n < 10 THEN <<n>> ELSE Digits(n \div 10) \o <<n % 10>>

\* str(int): optional minus sign (code -1) followed by decimal digits
str(n) == IF n < 0 THEN <<-1>> \o Digits(0 - n) ELSE Digits(n)

\* round(2) / ":.2f" on a value held in thousandths: nearest hundredth,
\* ties to even
Round2(v) ==
  LET a == IF v < 0 THEN 0 - v ELSE v
      q == a \div 10
      r == a % 10
      up == IF r > 5 \/ (r = 5 /\ q % 2 = 1) THEN q + 1 ELSE q
  IN  IF v < 0 THEN 0 - up * 10 ELSE up * 10

----------------------------------------------------------------------------
\* The warehouse: contents of the three views, and the SQL the script sends

Databases == <<
  [ v_latest_price |-> <<
      [symbol |-> SymB, last_price |-> 2005, last_ts |-> -20],
      [symbol |-> SymA, last_price |-> 1004, last_ts |-> -10] >>,
    v_summary_24h |-> <<
      [symbol |-> SymA, last_price |-> 1004, pct_change_24h |-> 3142] >>,
    v_signals |-> <<
      [symbol |-> SymA, cross_signal |-> "golden", bucket_start |-> -10, avg_price |-> 1004],
      [symbol |-> SymA, cross_signal |-> "none", bucket_start |-> -21590, avg_price |-> 1001],
      [symbol |-> SymA, cross_signal |-> "none", bucket_start |-> -172790, avg_price |-> 1000],
      [symbol |-> SymB, cross_signal |-> "death", bucket_start |-> -172790, avg_price |-> 2001] >> ],
  [ v_latest_price |-> <<
      [symbol |-> SymAB, last_price |-> 3005, last_ts |-> 20],
      [symbol |-> SymA, last_price |-> 1015, last_ts |-> 20],
      [symbol |-> SymAB, last_price |-> 3005, last_ts |-> 10] >>,
    v_summary_24h |-> <<
      [symbol |-> SymA, last_price |-> 1015, pct_change_24h |-> -1275] >>,
    v_signals |-> <<
      [symbol |-> SymA, cross_signal |-> "death", bucket_start |-> 20, avg_price |-> 1015],
      [symbol |-> SymA, cross_signal |-> "golden", bucket_start |-> -10, avg_price |-> 1004],
      [symbol |-> SymA, cross_signal |-> "none", bucket_start |-> -21590, avg_price |-> 1001] >> ],
  [ v_latest_price |-> <<>>, v_summary_24h |-> <<>>, v_signals |-> <<>> ]
>>

DbIds == DOMAIN Databases

Contains(s, x) == \E i \in 1..Len(s) : s[i] = x

\* SELECT DISTINCT symbol: one row per value, in the order the server meets them
RECURSIVE Distinct(_)
Distinct(s) ==
  IF s = <<>> THEN <<>>
  ELSE LET front == Distinct(SubSeq(s, 1, Len(s) - 1))
       IN  IF Contains(front, s[Len(s)]) THEN front ELSE front \o <<s[Len(s)]>>

\* ORDER BY ts (ascending)
RECURSIVE InsertByTs(_, _)
InsertByTs(r, s) ==
  IF s = <<>> THEN <<r>>
  ELSE IF r.ts < Head(s).ts THEN <<r>> \o s
  ELSE <<Head(s)>> \o InsertByTs(r, Tail(s))

\* the rows in table order
OrderByTsMissing(s) == s

RECURSIVE OrderByTs(_)
OrderByTs(s) ==
  IF s = <<>> THEN <<>>
  ELSE InsertByTs(s[Len(s)], OrderByTs(SubSeq(s, 1, Len(s) - 1)))

\* the literal after INTERVAL, read back by the SQL parser
RECURSIVE DigitsValue(_)
DigitsValue(t) ==
  IF t = <<>> THEN 0 ELSE DigitsValue(SubSeq(t, 1, Len(t) - 1)) * 10 + t[Len(t)]

IntervalValue(t) ==
  IF t # <<>> /\ Head(t) = -1 THEN 0 - DigitsValue(Tail(t)) ELSE DigitsValue(t)


\* cursor.execute(query, params) + fetchall on warehouse content d at time now
Execute(d, now, stmt) ==
  LET bySymbol(r) == r.symbol = stmt.params[1]
  IN  CASE stmt.sql = "distinct_symbols" ->
             LET col == [i \in 1..Len(d.v_latest_price) |-> d.v_latest_price[i].symbol]
                 dis == Distinct(col)
             IN  [i \in 1..Len(dis) |-> [symbol |-> dis[i]]]
        [] stmt.sql = "latest_price" -> SelectSeq(d.v_latest_price, bySymbol)
        [] stmt.sql = "summary_24h" -> SelectSeq(d.v_summary_24h, bySymbol)
        [] stmt.sql = "signal_latest" ->
             LET mine == SelectSeq(d.v_signals, bySymbol)
                 top(r) == \A i \in 1..Len(mine) : mine[i].bucket_start <= r.bucket_start
                 best == SelectSeq(mine, top)
             IN  IF best = <<>> THEN <<>> ELSE <<Head(best)>>
        [] stmt.sql = "series" ->
             LET from == now - IntervalValue(stmt.interval) * SecondsPerHour
                 inWindow(r) == r.symbol = stmt.params[1] /\ r.bucket_start >= from
                 rows == SelectSeq(d.v_signals, inWindow)
             IN  OrderByTs([i \in 1..Len(rows) |->
                     [symbol |-> rows[i].symbol, ts |-> rows[i].bucket_start,
                      avg_price |-> rows[i].avg_price]])

----------------------------------------------------------------------------
\* The cached query wrappers

\* the statement each wrapper builds from its arguments
Statement(fn, args) ==
  CASE fn = "q_distinct_symbols" ->
         [sql |-> "distinct_symbols", interval |-> <<>>, params |-> <<>>]
    [] fn = "q_latest_price_sym" ->
         [sql |-> "latest_price", interval |-> <<>>, params |-> <<args[1]>>]
    [] fn = "q_summary_24h_sym" ->
         [sql |-> "summary_24h", interval |-> <<>>, params |-> <<args[1]>>]
    [] fn = "q_signal_latest_sym" ->
         [sql |-> "signal_latest", interval |-> <<>>, params |-> <<args[1]>>]
    [] fn = "q_series_sym" ->
         [sql |-> "series", interval |-> str(args[2]), params |-> <<args[1]>>]

\* run_query: the table the server returns for the statement
run_query(d, now, stmt) == Execute(d, now, stmt)

\* what the wrapper returns from the table
Returned(fn, df) ==
  IF fn = "q_distinct_symbols"
  THEN sorted([i \in 1..Len(df) |-> df[i].symbol])
  ELSE df

Functions == {"q_distinct_symbols", "q_latest_price_sym", "q_summary_24h_sym",
              "q_signal_latest_sym", "q_series_sym"}

EmptyStore == [x \in {} |-> x]

\* keyed by the symbol alone
CacheKeySymbolOnly(fn, args) == IF args = <<>> THEN args ELSE <<args[1]>>

\* st.cache_data keys an entry by the wrapper's full argument tuple
CacheKey(fn, args) == args

\* served up to and including the ttl
FreshInclusive(e, now) == now <= e.stored_at + TTL

\* a stored entry is served while younger than the ttl
Fresh(e, now) == now < e.stored_at + TTL

Cached(c, fn, args) == CacheKey(fn, args) \in DOMAIN c[fn]

\* the outcomes of one call of a wrapper: served from the store, or run_query
\* executed (returning a table, or raising)
Outcomes(fn, args) ==
  IF Cached(cache, fn, args) /\ Fresh(cache[fn][CacheKey(fn, args)], clock)
  THEN {[hit |-> TRUE, ok |-> TRUE,
         value |-> cache[fn][CacheKey(fn, args)].value,
         fetched_at |-> cache[fn][CacheKey(fn, args)].stored_at]}
  ELSE {[hit |-> FALSE, ok |-> TRUE,
         value |-> Returned(fn, run_query(Databases[db], clock, Statement(fn, args))),
         fetched_at |-> clock],
        [hit |-> FALSE, ok |-> FALSE, value |-> <<>>, fetched_at |-> clock]}

\* fn.clear()
Clear(c, fn) == [c EXCEPT ![fn] = EmptyStore]

ClearAll(c) ==
  Clear(Clear(Clear(Clear(Clear(c, "q_distinct_symbols"), "q_latest_price_sym"),
                    "q_summary_24h_sym"), "q_signal_latest_sym"), "q_series_sym")


----------------------------------------------------------------------------
\* Configuration

RequiredKeys == <<"DATABRICKS_SERVER_HOSTNAME", "DATABRICKS_HTTP_PATH", "DATABRICKS_TOKEN">>

Unset == [isset |-> FALSE, text |-> ""]
EnvValues == {Unset, [isset |-> TRUE, text |-> ""], [isset |-> TRUE, text |-> "x"]}

\* a test for None alone
TruthyNotNone(v) == v.isset

\* Python truthiness of an os.getenv result: None and "" are falsy
Truthy(v) == v.isset /\ v.text # ""

\* missing = [k for k, v in {...}.items() if not v]
Missing(e) ==
  LET absent(k) == ~Truthy(e[k]) IN SelectSeq(RequiredKeys, absent)

----------------------------------------------------------------------------
\* Initial state: the process has started, no session has run the script yet

Element(kind, data) == [kind |-> kind, data |-> data]

Shown(kind) == \E i \in 1..Len(ui) : ui[i].kind = kind

NoRefresh == [phase |-> "none", before |-> [f \in Functions |-> EmptyStore]]

Init ==
  /\ env \in [{RequiredKeys[i] : i \in 1..Len(RequiredKeys)} -> EnvValues]
  /\ clock = 0
  /\ db \in DbIds
  /\ cache = [f \in Functions |-> EmptyStore]
  /\ widgets = [options |-> <<>>, value |-> <<>>, hours |-> SliderDefault]
  /\ pc = "idle"
  /\ button = FALSE
  /\ missing = <<>>
  /\ symbols = <<>>
  /\ sel_symbol = <<>>
  /\ hours_back = 0
  /\ latest_df = <<>>
  /\ summary_df = <<>>
  /\ signal_df = <<>>
  /\ series_df = <<>>
  /\ ui = <<>>
  /\ sent = <<>>
  /\ calls = <<>>
  /\ fetched = [f \in Functions |-> EmptyStore]
  /\ refresh = NoRefresh
  /\ runs = 0

\* a script run starts from the top with fresh module-level names
StartRun ==
  /\ pc' = "config"
  /\ missing' = <<>>
  /\ symbols' = <<>>
  /\ sel_symbol' = <<>>
  /\ hours_back' = 0
  /\ latest_df' = <<>>
  /\ summary_df' = <<>>
  /\ signal_df' = <<>>
  /\ series_df' = <<>>
  /\ ui' = <<Element("title", <<>>)>>
  /\ sent' = <<>>
  /\ calls' = <<>>

----------------------------------------------------------------------------
\* The environment and the user.  A script run is taken at one clock reading
\* and one warehouse content: time passes and the views change between runs.
\* The user starts at most MaxRuns runs; the rerun st.rerun() forces is not
\* counted.

Tick ==
  /\ pc = "idle"
  /\ clock + TickSeconds <= MaxClock
  /\ clock' = clock + TickSeconds
  /\ UNCHANGED <<env, db, cache, widgets, pc, button, missing, symbols, sel_symbol,
                 hours_back, latest_df, summary_df, signal_df, series_df, ui, sent,
                 calls, fetched, refresh, runs>>

\* the upstream pipeline rewrites the views
WarehouseChange ==
  /\ pc = "idle"
  /\ \E d \in DbIds \ {db} : db' = d
  /\ UNCHANGED <<env, clock, cache, widgets, pc, button, missing, symbols, sel_symbol,
                 hours_back, latest_df, summary_df, signal_df, series_df, ui, sent,
                 calls, fetched, refresh, runs>>

\* the session opens the page, or reruns the script without touching a widget
Rerun ==
  /\ pc = "idle"
  /\ runs < MaxRuns
  /\ runs' = runs + 1
  /\ StartRun
  /\ button' = FALSE
  /\ refresh' = NoRefresh
  /\ UNCHANGED <<env, clock, db, cache, widgets, fetched>>

\* the user picks an option of the selectbox on the page
SelectSymbol ==
  /\ pc = "idle"
  /\ runs < MaxRuns
  /\ runs' = runs + 1
  /\ Shown("selectbox")
  /\ \E i \in 1..Len(widgets.options) :
       /\ widgets.options[i] # widgets.value
       /\ widgets' = [widgets EXCEPT !.value = widgets.options[i]]
  /\ StartRun
  /\ button' = FALSE
  /\ refresh' = NoRefresh
  /\ UNCHANGED <<env, clock, db, cache, fetched>>

\* the user drags the slider
MoveSlider ==
  /\ pc = "idle"
  /\ runs < MaxRuns
  /\ runs' = runs + 1
  /\ Shown("slider")
  /\ \E h \in HoursChoices \ {widgets.hours} : widgets' = [widgets EXCEPT !.hours = h]
  /\ StartRun
  /\ button' = FALSE
  /\ refresh' = NoRefresh
  /\ UNCHANGED <<env, clock, db, cache, fetched>>

\* the user clicks "Refresh now": the script reruns with the button reading True
ClickRefresh ==
  /\ pc = "idle"
  /\ runs < MaxRuns
  /\ runs' = runs + 1
  /\ Shown("refresh_button")
  /\ StartRun
  /\ button' = TRUE
  /\ refresh' = [phase |-> "clicked", before |-> cache]
  /\ UNCHANGED <<env, clock, db, cache, widgets, fetched>>


----------------------------------------------------------------------------
\* The script, top to bottom

\* an entry written on every miss
StoresAnyMiss(o) == ~o.hit

\* st.cache_data stores the value a wrapper returns; a call that raises
\* returns nothing
Stores(o) == ~o.hit /\ o.ok

\* what one wrapper call leaves behind: the call itself, the statement sent
\* (on a miss), the stored entry (on a successful miss)
CallEffects(fn, args, o) ==
  /\ calls' = Append(calls, [fn |-> fn, args |-> args, at |-> clock, hit |-> o.hit,
                             ok |-> o.ok, value |-> o.value,
                             fetched_at |-> o.fetched_at])
  /\ sent' = IF o.hit THEN sent ELSE Append(sent, Statement(fn, args))
  /\ cache' = IF Stores(o)
              THEN [cache EXCEPT ![fn] =
                      (CacheKey(fn, args) :> [value |-> o.value, stored_at |-> clock]) @@ @]
              ELSE cache
  /\ fetched' = IF ~o.hit /\ o.ok
                THEN [fetched EXCEPT ![fn] =
                        (args :> [value |-> o.value, at |-> clock, cleared |-> FALSE]) @@ @]
                ELSE fetched

\* an exception leaves the script: the run ends, the traceback is shown
Raised ==
  /\ ui' = Append(ui, Element("exception", <<>>))
  /\ pc' = "idle"
  /\ button' = FALSE

\* the env check: st.error + st.stop when a required setting is falsy
CheckConfig ==
  /\ pc = "config"
  /\ missing' = Missing(env)
  /\ IF missing' # <<>>
     THEN /\ ui' = Append(ui, Element("error", missing'))
          /\ pc' = "idle"
          /\ button' = FALSE
     ELSE /\ ui' = ui
          /\ pc' = "symbols"
          /\ button' = button
  /\ UNCHANGED <<env, clock, db, cache, widgets, symbols, sel_symbol, hours_back,
                 latest_df, summary_df, signal_df, series_df, sent, calls, fetched,
                 refresh, runs>>

\* a stored choice kept whatever the options are
SelectboxSticky(w, options) == IF w.value # <<>> THEN w.value ELSE options[1]

\* st.sidebar.selectbox("Symbol", options=symbols, index=0): the stored choice
\* belongs to the widget with these options; a widget with other options is new
Selectbox(w, options) == IF w.options = options THEN w.value ELSE options[1]

\* st.sidebar.slider("Lookback (hours)", 6, 96, 48)
Slider(w) == w.hours

\* symbols = q_distinct_symbols(); stop when empty; then the two sidebar widgets
LoadSymbols ==
  /\ pc = "symbols"
  /\ \E o \in Outcomes("q_distinct_symbols", <<>>) :
       /\ CallEffects("q_distinct_symbols", <<>>, o)
       /\ IF ~o.ok
          THEN Raised /\ UNCHANGED <<symbols, sel_symbol, hours_back, widgets>>
          ELSE /\ symbols' = o.value
               /\ IF symbols' = <<>>
                  THEN /\ ui' = Append(ui, Element("info_no_symbols", <<>>))
                       /\ pc' = "idle"
                       /\ button' = FALSE
                       /\ UNCHANGED <<sel_symbol, hours_back, widgets>>
                  ELSE /\ sel_symbol' = Selectbox(widgets, symbols')
                       /\ hours_back' = Slider(widgets)
                       /\ widgets' = [widgets EXCEPT !.options = symbols',
                                                     !.value = sel_symbol']
                       /\ ui' = ui \o <<Element("selectbox", symbols'),
                                        Element("slider", <<hours_back'>>)>>
                       /\ pc' = "latest"
                       /\ button' = button
  /\ UNCHANGED <<env, clock, db, missing, latest_df, summary_df, signal_df, series_df,
                 refresh, runs>>

LoadLatest ==
  /\ pc = "latest"
  /\ \E o \in Outcomes("q_latest_price_sym", <<sel_symbol>>) :
       /\ CallEffects("q_latest_price_sym", <<sel_symbol>>, o)
       /\ IF ~o.ok
          THEN Raised /\ UNCHANGED latest_df
          ELSE latest_df' = o.value /\ pc' = "summary" /\ UNCHANGED <<ui, button>>
  /\ UNCHANGED <<env, clock, db, widgets, missing, symbols, sel_symbol, hours_back,
                 summary_df, signal_df, series_df, refresh, runs>>

LoadSummary ==
  /\ pc = "summary"
  /\ \E o \in Outcomes("q_summary_24h_sym", <<sel_symbol>>) :
       /\ CallEffects("q_summary_24h_sym", <<sel_symbol>>, o)
       /\ IF ~o.ok
          THEN Raised /\ UNCHANGED summary_df
          ELSE summary_df' = o.value /\ pc' = "signal" /\ UNCHANGED <<ui, button>>
  /\ UNCHANGED <<env, clock, db, widgets, missing, symbols, sel_symbol, hours_back,
                 latest_df, signal_df, series_df, refresh, runs>>

LoadSignal ==
  /\ pc = "signal"
  /\ \E o \in Outcomes("q_signal_latest_sym", <<sel_symbol>>) :
       /\ CallEffects("q_signal_latest_sym", <<sel_symbol>>, o)
       /\ IF ~o.ok
          THEN Raised /\ UNCHANGED signal_df
          ELSE signal_df' = o.value /\ pc' = "series" /\ UNCHANGED <<ui, button>>
  /\ UNCHANGED <<env, clock, db, widgets, missing, symbols, sel_symbol, hours_back,
                 latest_df, summary_df, series_df, refresh, runs>>

LoadSeries ==
  /\ pc = "series"
  /\ \E o \in Outcomes("q_series_sym", <<sel_symbol, hours_back>>) :
       /\ CallEffects("q_series_sym", <<sel_symbol, hours_back>>, o)
       /\ IF ~o.ok
          THEN Raised /\ UNCHANGED series_df
          ELSE series_df' = o.value /\ pc' = "render" /\ UNCHANGED <<ui, button>>
  /\ UNCHANGED <<env, clock, db, widgets, missing, symbols, sel_symbol, hours_back,
                 latest_df, summary_df, signal_df, refresh, runs>>

\* the three KPI cells
KpiSection(latest, summary, signal) ==
  <<Element("kpi_price", IF latest # <<>> THEN <<Round2(latest[1].last_price)>> ELSE <<>>)>>
  \o (IF latest # <<>> THEN <<Element("kpi_updated", <<latest[1].last_ts>>)>> ELSE <<>>)
  \o <<Element("kpi_change",
               IF summary # <<>> THEN <<Round2(summary[1].pct_change_24h)>> ELSE <<>>),
       Element("kpi_signal", IF signal # <<>> THEN <<signal[1].cross_signal>> ELSE <<>>)>>

\* the chart drawn without the emptiness test
PriceTrendsAlwaysChart(series) == <<Element("chart", series)>>

\* Price Trends: placeholder when the frame is empty, else the line chart
PriceTrends(series) ==
  IF series = <<>>
  THEN <<Element("info_no_window", <<>>)>>
  ELSE <<Element("chart", series)>>

SignalSummary(signal) ==
  IF signal = <<>>
  THEN <<Element("info_no_signal", <<>>)>>
  ELSE <<Element("signal_table", signal)>>

Summary24h(summary) ==
  IF summary = <<>>
  THEN <<Element("info_no_summary", <<>>)>>
  ELSE <<Element("summary_table",
                 [i \in 1..Len(summary) |->
                    [summary[i] EXCEPT !.pct_change_24h = Round2(@)]])>>

RenderSections ==
  /\ pc = "render"
  /\ ui' = ui \o KpiSection(latest_df, summary_df, signal_df) \o PriceTrends(series_df)
              \o SignalSummary(signal_df) \o Summary24h(summary_df)
  /\ pc' = "button"
  /\ UNCHANGED <<env, clock, db, cache, widgets, button, missing, symbols, sel_symbol,
                 hours_back, latest_df, summary_df, signal_df, series_df, sent, calls,
                 fetched, refresh, runs>>

\* if st.sidebar.button("Refresh now"): clear the five stores, st.rerun()
RefreshButton ==
  /\ pc = "button"
  /\ IF button
     THEN /\ cache' = ClearAll(cache)
          /\ fetched' = [f \in Functions |->
                           [k \in DOMAIN fetched[f] |-> [fetched[f][k] EXCEPT !.cleared = TRUE]]]
          /\ refresh' = [refresh EXCEPT !.phase = "cleared"]
          /\ StartRun
          /\ button' = FALSE
     ELSE /\ ui' = Append(ui, Element("refresh_button", <<>>))
          /\ pc' = "idle"
          /\ UNCHANGED <<cache, fetched, refresh, button, missing, symbols, sel_symbol,
                         hours_back, latest_df, summary_df, signal_df, series_df, sent,
                         calls>>
  /\ UNCHANGED <<env, clock, db, widgets, runs>>

Next ==
  \/ Tick
  \/ WarehouseChange
  \/ Rerun
  \/ SelectSymbol
  \/ MoveSlider
  \/ ClickRefresh
  \/ CheckConfig
  \/ LoadSymbols
  \/ LoadLatest
  \/ LoadSummary
  \/ LoadSignal
  \/ LoadSeries
  \/ RenderSections
  \/ RefreshButton

Spec == Init /\ [][Next]_vars


\* q_series_sym called directly: one call for each symbol and hours_back value
SymbolInputs == {SymA, SymAB, SymB}
HoursInputs == (0 - 2)..9

SeriesInit ==
  /\ env = [k \in {RequiredKeys[i] : i \in 1..Len(RequiredKeys)} |-> [isset |-> TRUE, text |-> "x"]]
  /\ clock = 0
  /\ db \in DbIds
  /\ cache = [f \in Functions |-> EmptyStore]
  /\ widgets = [options |-> <<>>, value |-> <<>>, hours |-> SliderDefault]
  /\ pc = "series"
  /\ button = FALSE
  /\ missing = <<>>
  /\ sel_symbol \in SymbolInputs
  /\ symbols = <<sel_symbol>>
  /\ hours_back \in HoursInputs
  /\ latest_df = <<>>
  /\ summary_df = <<>>
  /\ signal_df = <<>>
  /\ series_df = <<>>
  /\ ui = <<>>
  /\ sent = <<>>
  /\ calls = <<>>
  /\ fetched = [f \in Functions |-> EmptyStore]
  /\ refresh = NoRefresh
  /\ runs = 0

SeriesNext == LoadSeries

SeriesSpec == SeriesInit /\ [][SeriesNext]_vars

----------------------------------------------------------------------------
\* Properties

Elements(s) == {s[i] : i \in 1..Len(s)}

\* the last successful run_query for a wrapper and argument tuple
Known(fn, args) == args \in DOMAIN fetched[fn]
LastFetch(fn, args) == fetched[fn][args]

\* a wrapper was called in this step
CallStep == Len(calls') = Len(calls) + 1
LastCall == calls'[Len(calls')]

\* C1: a call of a cached query whose arguments were fetched successfully less
\* than 60 seconds ago, with no clear since, is served without run_query (no
\* statement is sent); any other call (first call, 60 seconds or more after the
\* fetch, or after a clear) sends the wrapper's statement through run_query.
C1_Populated(r) ==
  /\ Known(r.fn, r.args)
  /\ ~LastFetch(r.fn, r.args).cleared
  /\ clock - LastFetch(r.fn, r.args).at < TTL

C1_CacheTtl ==
  [][CallStep =>
       IF C1_Populated(LastCall)
       THEN LastCall.hit /\ sent' = sent
       ELSE ~LastCall.hit /\ sent' = Append(sent, Statement(LastCall.fn, LastCall.args))]_vars

\* a run that served one query from an entry fetched earlier and ran another
C1_Witness ==
  \E i, j \in 1..Len(calls) :
    /\ calls[i].hit /\ calls[i].at > calls[i].fetched_at
    /\ ~calls[j].hit /\ calls[j].ok

\* C2 (as claimed): once the run started by a "Refresh now" click has ended,
\* no entry that was in a cache at the click is still being served, and every
\* query of the re-run after the clear was executed through run_query.
C2_RefreshAlwaysClears ==
  /\ (pc = "idle" /\ refresh.phase # "none") =>
       \A f \in Functions : \A k \in DOMAIN cache[f] :
         ~(/\ k \in DOMAIN refresh.before[f]
           /\ refresh.before[f][k] = cache[f][k]
           /\ refresh.phase = "clicked"
           /\ clock - cache[f][k].stored_at < TTL)
  /\ refresh.phase = "cleared" => \A i \in 1..Len(calls) : ~calls[i].hit

\* C3: when a required setting is unset or empty the run shows the error with
\* exactly the missing key names, stops there, and has made no wrapper call
\* and sent no statement; with all three set no such error is shown.
C3_Absent == {k \in DOMAIN env : ~env[k].isset \/ env[k].text = ""}

C3_MissingConfig ==
  (ui # <<>> /\ pc # "config") =>
    IF C3_Absent # {}
    THEN /\ Len(ui) = 2
         /\ ui[2].kind = "error"
         /\ Elements(ui[2].data) = C3_Absent
         /\ Len(ui[2].data) = Cardinality(C3_Absent)
         /\ pc = "idle"
         /\ calls = <<>>
         /\ sent = <<>>
    ELSE ~Shown("error")

\* a run stopped with two settings missing, one unset and one empty
C3_Witness ==
  /\ Shown("error")
  /\ Len(missing) = 2
  /\ \E k \in C3_Absent : env[k].isset
  /\ \E k \in C3_Absent : ~env[k].isset

\* C4: the list q_distinct_symbols returns is strictly ascending in
\* lexicographic order (so sorted, and every symbol at most once).
C4_SortedUnique ==
  \A c \in 1..Len(calls) :
    (calls[c].fn = "q_distinct_symbols" /\ calls[c].ok) =>
      \A i, j \in 1..Len(calls[c].value) :
        i < j => LexLess(calls[c].value[i], calls[c].value[j])

\* the view held a symbol twice and listed its symbols out of order
C4_Witness ==
  /\ Len(calls) >= 1
  /\ calls[1].ok
  /\ calls[1].value = <<SymA, SymAB>>
  /\ Databases[db].v_latest_price[1].symbol = SymAB
  /\ Len(Databases[db].v_latest_price) = 3

WindowStart(now, hours) == now - hours * SecondsPerHour

NonDecreasing(rows) == \A i, j \in 1..Len(rows) : i < j => rows[i].ts <= rows[j].ts

SeriesCalls == {i \in 1..Len(calls) : calls[i].fn = "q_series_sym" /\ calls[i].ok}

\* C5 (as claimed): every point of a result q_series_sym(S, H) returns at time
\* now has timestamp >= now - H hours, and the points are in non-decreasing
\* timestamp order.
C5_WindowAtCallTime ==
  \A i \in SeriesCalls :
    /\ \A p \in Elements(calls[i].value) : p.ts >= WindowStart(calls[i].at, calls[i].args[2])
    /\ NonDecreasing(calls[i].value)

\* C5 (amended): every point of a result q_series_sym(S, H) returns has
\* timestamp >= t - H hours, where t is the time of the run_query that fetched
\* the result, at most 60 seconds (exclusive) before the call; the points are
\* in non-decreasing timestamp order.
C5_WindowAtFetchTime ==
  \A i \in SeriesCalls :
    /\ Known("q_series_sym", calls[i].args)
    /\ LET t == LastFetch("q_series_sym", calls[i].args).at
       IN  /\ t <= calls[i].at
           /\ calls[i].at - t < TTL
           /\ \A p \in Elements(calls[i].value) : p.ts >= WindowStart(t, calls[i].args[2])
    /\ NonDecreasing(calls[i].value)

\* a result of several points served from the cache after its oldest point
\* left the window
C5_Witness ==
  \E i \in SeriesCalls :
    /\ calls[i].hit
    /\ Len(calls[i].value) >= 2
    /\ \E p \in Elements(calls[i].value) : p.ts < WindowStart(calls[i].at, calls[i].args[2])

\* C6 (as claimed): the text q_series_sym puts after INTERVAL in a statement it
\* sends is always a positive integer literal.
PositiveIntLiteral(t) ==
  /\ t # <<>>
  /\ \A i \in 1..Len(t) : t[i] \in 0..9
  /\ DigitsValue(t) > 0

C6_IntervalValidated ==
  \A i \in 1..Len(sent) : sent[i].sql = "series" => PositiveIntLiteral(sent[i].interval)


PerSymbol == <<"q_latest_price_sym", "q_summary_24h_sym", "q_signal_latest_sym", "q_series_sym">>

\* the run has passed the sidebar widgets
ReachedQueries == Shown("selectbox")

\* the run has passed the data sections
Rendered == pc = "button" \/ Shown("refresh_button")

\* C7: in a run that reaches the per-symbol queries the selected symbol is a
\* member of the list q_distinct_symbols returned in that run (its first
\* element before any selection) and the lookback hours are in 6..96 (48 before
\* any change); every per-symbol call and statement of the run carries exactly
\* that symbol, q_series_sym exactly those hours, and a run that gets through
\* makes the four calls in order.
C7_SelectionDrivesCalls ==
  ReachedQueries =>
    /\ calls[1].fn = "q_distinct_symbols"
    /\ symbols = calls[1].value
    /\ Contains(symbols, sel_symbol)
    /\ hours_back \in SliderMin..SliderMax
    /\ runs = 1 => sel_symbol = symbols[1] /\ hours_back = SliderDefault
    /\ \A i \in 2..Len(calls) :
         /\ calls[i].fn = PerSymbol[i - 1]
         /\ calls[i].args = IF calls[i].fn = "q_series_sym"
                            THEN <<sel_symbol, hours_back>> ELSE <<sel_symbol>>
    /\ \A i \in 1..Len(sent) :
         sent[i].sql # "distinct_symbols" =>
           /\ sent[i].params = <<sel_symbol>>
           /\ sent[i].sql = "series" => IntervalValue(sent[i].interval) = hours_back
    /\ Rendered => Len(calls) = 5

\* a full run on a symbol list that no longer holds the symbol the user had
\* selected, with the slider moved off its default
C7_Witness ==
  /\ Rendered
  /\ symbols = <<SymA, SymAB>>
  /\ sel_symbol = SymA
  /\ hours_back = SliderMin
  /\ Known("q_latest_price_sym", <<SymB>>)

\* the value the last successful fetch for a wrapper and arguments returned
Value(fn, args) == LastFetch(fn, args).value

\* C8: every value a wrapper hands to a run is the result of the last
\* successful run_query for that wrapper and those exact arguments, fetched
\* less than 60 seconds before the call and not cleared since; and every
\* element on the page shows the value so obtained for the run's symbol and
\* hours.
C8_RenderedFromLatestFetch ==
  /\ \A i \in 1..Len(calls) :
       calls[i].ok =>
         /\ Known(calls[i].fn, calls[i].args)
         /\ calls[i].value = Value(calls[i].fn, calls[i].args)
         /\ ~LastFetch(calls[i].fn, calls[i].args).cleared
         /\ LastFetch(calls[i].fn, calls[i].args).at <= calls[i].at
         /\ calls[i].at - LastFetch(calls[i].fn, calls[i].args).at < TTL
  /\ \A i \in 1..Len(ui) :
       LET latest == Value("q_latest_price_sym", <<sel_symbol>>)
           summary == Value("q_summary_24h_sym", <<sel_symbol>>)
           signal == Value("q_signal_latest_sym", <<sel_symbol>>)
           series == Value("q_series_sym", <<sel_symbol, hours_back>>)
       IN  /\ ui[i].kind = "selectbox" => ui[i].data = Value("q_distinct_symbols", <<>>)
           /\ ui[i].kind = "kpi_price" =>
                ui[i].data = IF latest = <<>> THEN <<>> ELSE <<Round2(latest[1].last_price)>>
           /\ ui[i].kind = "kpi_updated" => ui[i].data = <<latest[1].last_ts>>
           /\ ui[i].kind = "kpi_change" =>
                ui[i].data = IF summary = <<>> THEN <<>> ELSE <<Round2(summary[1].pct_change_24h)>>
           /\ ui[i].kind = "kpi_signal" =>
                ui[i].data = IF signal = <<>> THEN <<>> ELSE <<signal[1].cross_signal>>
           /\ ui[i].kind = "chart" => ui[i].data = series
           /\ ui[i].kind = "info_no_window" => series = <<>>
           /\ ui[i].kind = "signal_table" => ui[i].data = signal
           /\ ui[i].kind = "info_no_signal" => signal = <<>>
           /\ ui[i].kind = "summary_table" =>
                /\ Len(ui[i].data) = Len(summary)
                /\ \A j \in 1..Len(summary) :
                     /\ ui[i].data[j].symbol = summary[j].symbol
                     /\ ui[i].data[j].pct_change_24h = Round2(summary[j].pct_change_24h)
           /\ ui[i].kind = "info_no_summary" => summary = <<>>

\* a rendered run of which some values came from the cache and some were
\* fetched, for a symbol whose series for the other lookback differs
C8_Witness ==
  /\ Rendered
  /\ Shown("chart")
  /\ \E i, j \in 1..Len(calls) : calls[i].hit /\ ~calls[j].hit
  /\ \E h \in HoursChoices :
       /\ Known("q_series_sym", <<sel_symbol, h>>)
       /\ h # hours_back
       /\ Value("q_series_sym", <<sel_symbol, h>>) # series_df

\* C9: a run that gets to the Price Trends section shows the placeholder and
\* no chart when q_series_sym returned an empty result, and the chart and no
\* placeholder otherwise; a run that does not get there shows neither.
C9_EmptySeriesPlaceholder ==
  IF Rendered
  THEN /\ Len(calls) = 5
       /\ calls[5].fn = "q_series_sym"
       /\ calls[5].value = <<>> => Shown("info_no_window") /\ ~Shown("chart")
       /\ calls[5].value # <<>> => Shown("chart") /\ ~Shown("info_no_window")
  ELSE ~Shown("chart") /\ ~Shown("info_no_window")

\* the symbol has signal rows, none of them inside the window
C9_Witness ==
  /\ Rendered
  /\ Shown("info_no_window")
  /\ Shown("signal_table")

DataKinds == {"kpi_price", "kpi_updated", "kpi_change", "kpi_signal", "chart",
              "info_no_window", "signal_table", "info_no_signal", "summary_table",
              "info_no_summary"}

\* C10: a wrapper call whose run_query raises sends its statement once, ends
\* the run there (the traceback is shown, no data section), leaves every cache
\* as it was, so no servable entry exists for the failed query and arguments
\* and the next call with them runs the query again; no call follows a failed
\* one in a run.
C10_FailedFetch ==
  [][CallStep =>
       /\ \A i \in 1..Len(calls) : calls[i].ok
       /\ ~LastCall.ok =>
            /\ sent' = Append(sent, Statement(LastCall.fn, LastCall.args))
            /\ cache' = cache
            /\ pc' = "idle"
            /\ ui'[Len(ui')].kind = "exception"
            /\ \A i \in 1..Len(ui') : ui'[i].kind \notin DataKinds
            /\ \/ LastCall.args \notin DOMAIN cache'[LastCall.fn]
               \/ clock' - cache'[LastCall.fn][LastCall.args].stored_at >= TTL]_vars

\* a run ended by a failed fetch after earlier calls of the run had succeeded,
\* with entries of other queries still cached
C10_Witness ==
  /\ Len(calls) >= 3
  /\ ~calls[Len(calls)].ok
  /\ pc = "idle"
  /\ \E k \in DOMAIN cache["q_latest_price_sym"] :
       clock - cache["q_latest_price_sym"][k].stored_at < TTL

====
